---- MODULE Spec2Model ----
(***************************************************************************)
(* esp-hal-smartled: the pulse codec (led_pulses_for_clock,                *)
(* convert_rgb_to_pulses), the buffer sizing functions and the two         *)
(* adapters SmartLedsAdapter (blocking) and SmartLedsAdapterAsync, as      *)
(* found in src/esp-hal-smartled/src/lib.rs.                               *)
(*                                                                         *)
(* A u32 RMT word is kept as the four fields PulseCode::new is given,      *)
(* <<level1, length1, level2, length2>>; the literal 0 the adapters write  *)
(* as end marker is the word with all four fields zero.  Sequences are     *)
(* 1-based: Rust index i is position i + 1 here.                            *)
(***************************************************************************)
EXTENDS Integers, Sequences, FiniteSets, TLC

VARIABLES
    mode,         \* which adapter this behaviour is about: "sync" / "async"
    channel,      \* SmartLedsAdapter.channel: "Some" / "None"
    rmt_buffer,   \* the adapter's [u32; BUFFER_SIZE]
    pulses,       \* the adapter's (zero-pulse, one-pulse) pair
    pc,           \* "idle", "transmitting" (sync, in wait()), "awaiting" (async, in .await), "panicked"
    req,          \* the colors of the current / last write call
    prev_buffer,  \* rmt_buffer as it was when the current / last write call began
    txlog,        \* the transmit calls made by the current / last write call
    result,       \* what the last write call returned
    periph_failed, \* history: the peripheral has reported a failure to this adapter
    fn,           \* codec run: the pure function applied
    arg,          \* codec run: its input
    out           \* codec run: its output

vars == <<mode, channel, rmt_buffer, pulses, pc, req, prev_buffer, txlog, result, periph_failed, fn, arg, out>>
adapterVars == <<mode, channel, rmt_buffer, pulses, pc, req, prev_buffer, txlog, result, periph_failed>>
codecVars == <<fn, arg, out>>

(***************************************************************************)
(* Bounds of the model.                                                    *)
(***************************************************************************)
MaxLeds == 2        \* longest color sequence handed to write
MaxCap == 51        \* largest BUFFER_SIZE
MaxClockMHz == 120  \* largest source clock of the dense range
MaxStart == 1       \* codec run: slots already consumed from the destination
MaxFree == 26       \* codec run: free slots left in the destination
MaxEncCap == 50      \* codec run: largest destination of a whole color sequence
MaxSizeLeds == 300  \* codec run: largest LED count of the dense range for the sizing functions

(***************************************************************************)
(* Program constants.                                                      *)
(***************************************************************************)
RMT_RAM_ONE_LED == 3 * 8
SK68XX_CODE_PERIOD == 1250
SK68XX_T0H_NS == 400
SK68XX_T0L_NS == SK68XX_CODE_PERIOD - SK68XX_T0H_NS
SK68XX_T1H_NS == 850
SK68XX_T1L_NS == SK68XX_CODE_PERIOD - SK68XX_T1H_NS

U16 == 65536

Low == 0
High == 1

\* The u32 literal 0 used as end marker.
EndMarker == <<Low, 0, Low, 0>>
\* A word no write of the model produces: what a destination held before.
Stale == <<High, 1, High, 1>>

BufferSizeExceeded == [kind |-> "BufferSizeExceeded", cause |-> "none"]
TransmissionError(e) == [kind |-> "TransmissionError", cause |-> e]
Ok == [kind |-> "Ok", cause |-> "none"]
NoResult == [kind |-> "none", cause |-> "none"]

\* The causes the peripheral reports.
RmtError == {"EndMarkerMissing", "TransmitFailed"}

(***************************************************************************)
(* Pulse codec.                                                            *)
(***************************************************************************)
PulseCode_new(level1, length1, level2, length2) == <<level1, length1, level2, length2>>

\* ((ns * src_clock) / 1000) as u16.  The product is a u32: it does not wrap for
\* any clock below 5052 GHz / 1000 (850 * src_clock < 2^32), far above the clocks
\* drawn here, so only the cast to u16 truncates.
Ticks(ns, src_clock) == ((ns * src_clock) \div 1000) % U16

led_pulses_for_clock_swapped(src_clock) ==
    << PulseCode_new(High, Ticks(SK68XX_T0H_NS, src_clock), Low, Ticks(SK68XX_T0L_NS, src_clock)),
       PulseCode_new(High, Ticks(SK68XX_T1H_NS, src_clock), Low, Ticks(SK68XX_T0L_NS, src_clock)) >>

led_pulses_for_clock(src_clock) ==
    << PulseCode_new(High, Ticks(SK68XX_T0H_NS, src_clock), Low, Ticks(SK68XX_T0L_NS, src_clock)),
       PulseCode_new(High, Ticks(SK68XX_T1H_NS, src_clock), Low, Ticks(SK68XX_T1L_NS, src_clock)) >>

\* An IterMut over a buffer: the buffer and the number of slots consumed.
IterMut(buf, pos) == [buf |-> buf, pos |-> pos]
Done(it) == [it |-> it, res |-> Ok]
Failed(it) == [it |-> it, res |-> BufferSizeExceeded]

\* *mut_iter.next().ok_or(BufferSizeExceeded)? = word
PutNext(it, word) ==
    IF it.pos >= Len(it.buf)
    THEN Failed(it)
    ELSE Done(IterMut([it.buf EXCEPT ![it.pos + 1] = word], it.pos + 1))

Positions == <<128, 64, 32, 16, 8, 4, 2, 1>>

\* channel_value & position, position a power of two
BitAnd(channel_value, position) == ((channel_value \div position) % 2) * position

\* for position in [128, 64, 32, 16, 8, 4, 2, 1]: k is the index of the position
RECURSIVE ChannelLoop(_, _, _, _, _)
ChannelLoop(channel_value, buf, pos, pls, k) ==
    IF k > Len(Positions)
    THEN Done(IterMut(buf, pos))
    ELSE IF pos >= Len(buf)
         THEN Failed(IterMut(buf, pos))
         ELSE ChannelLoop(channel_value,
                          [buf EXCEPT ![pos + 1] =
                              IF BitAnd(channel_value, Positions[k]) = 0 THEN pls[1] ELSE pls[2]],
                          pos + 1, pls, k + 1)

convert_rgb_channel_to_pulses_all_or_nothing(channel_value, mut_iter, pls) ==
    IF mut_iter.pos + Len(Positions) > Len(mut_iter.buf)
    THEN Failed(mut_iter)
    ELSE ChannelLoop(channel_value, mut_iter.buf, mut_iter.pos, pls, 1)

convert_rgb_channel_to_pulses(channel_value, mut_iter, pls) ==
    ChannelLoop(channel_value, mut_iter.buf, mut_iter.pos, pls, 1)

\* `?` after a channel: an error ends the conversion, otherwise the next channel
\* goes on from where the iterator stands.
ThenChannel(c, channel_value, pls) ==
    IF c.res # Ok THEN c ELSE convert_rgb_channel_to_pulses(channel_value, c.it, pls)

convert_rgb_to_pulses_rgb_order(value, mut_iter, pls) ==
    ThenChannel(ThenChannel(convert_rgb_channel_to_pulses(value.r, mut_iter, pls),
                            value.g, pls),
                value.b, pls)

convert_rgb_to_pulses(value, mut_iter, pls) ==
    ThenChannel(ThenChannel(convert_rgb_channel_to_pulses(value.g, mut_iter, pls),
                            value.r, pls),
                value.b, pls)

(***************************************************************************)
(* Buffer sizing.                                                          *)
(***************************************************************************)
buffer_size_no_delimiter(num_leds) == num_leds * RMT_RAM_ONE_LED

buffer_size(num_leds) == num_leds * RMT_RAM_ONE_LED + 1

buffer_size_async(num_leds) == num_leds * (RMT_RAM_ONE_LED + 1)

(***************************************************************************)
(* SmartLedsAdapter::write, the encoding part: every color from the start  *)
(* of the buffer, then one end element.                                    *)
(***************************************************************************)
\* for item in iterator { convert_rgb_to_pulses(item, &mut seq_iter, pulses)?; }
\* c is the outcome so far, i the next item; taken counts the items the loop
\* pulled from the iterator before it ended.
RECURSIVE SyncLoop(_, _, _, _)
SyncLoop(colors, i, c, pls) ==
    IF c.res # Ok \/ i > Len(colors)
    THEN [it |-> c.it, res |-> c.res, taken |-> i - 1]
    ELSE SyncLoop(colors, i + 1, convert_rgb_to_pulses(colors[i], c.it, pls), pls)

ThenEnd_skipped(c) == c

\* `?` before the end element
ThenEnd(c) ==
    IF c.res # Ok
    THEN c
    ELSE [c EXCEPT !.it = PutNext(c.it, EndMarker).it, !.res = PutNext(c.it, EndMarker).res]

write_encode_no_end(buf, colors, pls) ==
    SyncLoop(colors, 1, Done(IterMut(buf, 0)), pls)

\* A write that wipes what lies behind its end element.
ClearBehind(c) ==
    [c EXCEPT !.it.buf = [i \in 1..Len(c.it.buf) |->
                            IF i > c.it.pos THEN EndMarker ELSE c.it.buf[i]]]

write_encode_clear_rest(buf, colors, pls) ==
    ClearBehind(ThenEnd(SyncLoop(colors, 1, Done(IterMut(buf, 0)), pls)))

write_encode_from_one(buf, colors, pls) ==
    ThenEnd(SyncLoop(colors, 1, Done(IterMut(buf, 1)), pls))

write_encode(buf, colors, pls) ==
    ThenEnd(SyncLoop(colors, 1, Done(IterMut(buf, 0)), pls))

(***************************************************************************)
(* SmartLedsAdapterAsync: convert_rgb_to_pulse, prepare_rmt_buffer and the *)
(* chunks the write loop walks.                                            *)
(***************************************************************************)
convert_rgb_to_pulse_no_end(value, mut_iter, pls) ==
    convert_rgb_to_pulses(value, mut_iter, pls)

convert_rgb_to_pulse(value, mut_iter, pls) ==
    ThenEnd(convert_rgb_to_pulses(value, mut_iter, pls))

\* for item in iterator { Self::convert_rgb_to_pulse(item, &mut seq_iter, pulses)?; }
RECURSIVE AsyncLoop(_, _, _, _)
AsyncLoop(colors, i, c, pls) ==
    IF c.res # Ok \/ i > Len(colors)
    THEN [it |-> c.it, res |-> c.res, taken |-> i - 1]
    ELSE AsyncLoop(colors, i + 1, convert_rgb_to_pulse(colors[i], c.it, pls), pls)

prepare_rmt_buffer(buf, colors, pls) ==
    AsyncLoop(colors, 1, Done(IterMut(buf, 0)), pls)

Min(a, b) == IF a < b THEN a ELSE b

\* slice::chunks(chunk_size): consecutive chunks, the last one possibly shorter
NumChunks(buf, chunk_size) == (Len(buf) + chunk_size - 1) \div chunk_size
Chunk(buf, chunk_size, i) ==
    SubSeq(buf, (i - 1) * chunk_size + 1, Min(i * chunk_size, Len(buf)))

\* One transmit call: where its data starts in the buffer, the data, its fate
\* ("pending", "ok", "err": failed on completion, "rejected": transmit() itself
\* returned the error) and the cause the peripheral gave for a failure.
TxCall(offset, data, status, cause) ==
    [offset |-> offset, data |-> data, status |-> status, cause |-> cause]
TxChunk(buf, i) ==
    TxCall((i - 1) * (RMT_RAM_ONE_LED + 1), Chunk(buf, RMT_RAM_ONE_LED + 1, i), "pending", "none")
SetLast(log, status, cause) ==
    [log EXCEPT ![Len(log)].status = status, ![Len(log)].cause = cause]

(***************************************************************************)
(* Inputs.                                                                 *)
(***************************************************************************)
RGB8(r, g, b) == [r |-> r, g |-> g, b |-> b]
AdapterColors == {RGB8(0, 255, 0), RGB8(165, 1, 90)}
ColorSeqs == UNION {[1..n -> AdapterColors] : n \in 0..MaxLeds}
AdapterClocks == {80}
Zeros(n) == [i \in 1..n |-> EndMarker]
\* BUFFER_SIZE: up to MaxCap words; of these, what the sizing functions give for
\* some number of LEDs, one word less, one word more, and MaxCap itself.
Capacities ==
    {c \in 0..MaxCap :
        \/ c = MaxCap
        \/ \E n \in 0..MaxLeds, d \in {-1, 0, 1} :
              c = buffer_size(n) + d \/ c = buffer_size_async(n) + d}

ChannelValues == {0, 1, 90, 128, 165, 255}
CodecColors == {RGB8(r, g, b) : r \in ChannelValues, g \in ChannelValues, b \in ChannelValues}
LargeClocks == {77100, 77101, 100000}
CodecPulses == led_pulses_for_clock(80)
\* LED counts far up the range; 25 * 85000000 still fits 31 bits.
LargeLeds == {1000, 65536, 85000000}

(***************************************************************************)
(* The adapters.                                                           *)
(***************************************************************************)
AdapterInit ==
    /\ mode \in {"sync", "async"}
    /\ channel = "Some"
    /\ \E n \in Capacities : rmt_buffer = Zeros(n)
    /\ \E f \in AdapterClocks : pulses = led_pulses_for_clock(f)
    /\ pc = "idle"
    /\ req = <<>>
    /\ prev_buffer = rmt_buffer
    /\ txlog = <<>>
    /\ result = NoResult
    /\ periph_failed = FALSE

CodecIdle ==
    /\ fn = "none"
    /\ arg = 0
    /\ out = [done |-> FALSE]

Init == AdapterInit /\ CodecIdle

\* SmartLedsAdapter::write up to the point where it blocks in wait() or returns.
SyncWrite(colors) ==
    /\ mode = "sync"
    /\ pc = "idle"
    /\ \E enc \in {write_encode(rmt_buffer, colors, pulses)} :
           /\ rmt_buffer' = enc.it.buf
           /\ \/ \* the encoding ran out of buffer: `?` returns
                 /\ enc.res # Ok
                 /\ result' = enc.res
                 /\ pc' = "idle"
                 /\ txlog' = <<>>
                 /\ UNCHANGED <<channel, periph_failed>>
              \/ \* self.channel.take().unwrap() on None
                 /\ enc.res = Ok
                 /\ channel = "None"
                 /\ result' = NoResult
                 /\ pc' = "panicked"
                 /\ txlog' = <<>>
                 /\ UNCHANGED <<channel, periph_failed>>
              \/ \* transmit() starts the transmission
                 /\ enc.res = Ok
                 /\ channel = "Some"
                 /\ channel' = "None"
                 /\ result' = NoResult
                 /\ pc' = "transmitting"
                 /\ txlog' = <<TxCall(0, enc.it.buf, "pending", "none")>>
                 /\ UNCHANGED periph_failed
              \/ \* transmit() reports an error: `?` returns, the channel went with the call
                 /\ enc.res = Ok
                 /\ channel = "Some"
                 /\ channel' = "None"
                 /\ \E e \in RmtError :
                       /\ result' = TransmissionError(e)
                       /\ txlog' = <<TxCall(0, enc.it.buf, "rejected", e)>>
                 /\ pc' = "idle"
                 /\ periph_failed' = TRUE
    /\ req' = colors
    /\ prev_buffer' = rmt_buffer
    /\ UNCHANGED <<mode, pulses, codecVars>>

\* wait() returns: Ok(chan) or Err((e, chan)).
SyncWait ==
    /\ mode = "sync"
    /\ pc = "transmitting"
    /\ channel' = "Some"
    /\ pc' = "idle"
    /\ \/ /\ result' = Ok
          /\ txlog' = SetLast(txlog, "ok", "none")
          /\ UNCHANGED periph_failed
       \/ /\ \E e \in RmtError :
                /\ result' = TransmissionError(e)
                /\ txlog' = SetLast(txlog, "err", e)
          /\ periph_failed' = TRUE
    /\ UNCHANGED <<mode, rmt_buffer, pulses, req, prev_buffer, codecVars>>

\* SmartLedsAdapterAsync::write up to its first .await or its return.
AsyncWrite(colors) ==
    /\ mode = "async"
    /\ pc = "idle"
    /\ \E enc \in {prepare_rmt_buffer(rmt_buffer, colors, pulses)} :
           /\ rmt_buffer' = enc.it.buf
           /\ \/ /\ enc.res # Ok
                 /\ result' = enc.res
                 /\ pc' = "idle"
                 /\ txlog' = <<>>
              \/ /\ enc.res = Ok
                 /\ NumChunks(enc.it.buf, RMT_RAM_ONE_LED + 1) = 0
                 /\ result' = Ok
                 /\ pc' = "idle"
                 /\ txlog' = <<>>
              \/ /\ enc.res = Ok
                 /\ NumChunks(enc.it.buf, RMT_RAM_ONE_LED + 1) > 0
                 /\ result' = NoResult
                 /\ pc' = "awaiting"
                 /\ txlog' = <<TxChunk(enc.it.buf, 1)>>
    /\ req' = colors
    /\ prev_buffer' = rmt_buffer
    /\ UNCHANGED <<mode, channel, pulses, periph_failed, codecVars>>

\* The awaited transmit of the current chunk completes; the loop goes on or ends.
AsyncComplete_swallow ==
    /\ mode = "async"
    /\ pc = "awaiting"
    /\ \E st \in {"ok", "err"} :
          /\ periph_failed' = (periph_failed \/ st = "err")
          /\ \/ /\ Len(txlog) < NumChunks(rmt_buffer, RMT_RAM_ONE_LED + 1)
                /\ txlog' = Append(SetLast(txlog, st, "none"), TxChunk(rmt_buffer, Len(txlog) + 1))
                /\ UNCHANGED <<pc, result>>
             \/ /\ Len(txlog) >= NumChunks(rmt_buffer, RMT_RAM_ONE_LED + 1)
                /\ txlog' = SetLast(txlog, st, "none")
                /\ pc' = "idle"
                /\ result' = Ok
    /\ UNCHANGED <<mode, channel, rmt_buffer, pulses, req, prev_buffer, codecVars>>

AsyncComplete ==
    /\ mode = "async"
    /\ pc = "awaiting"
    /\ \/ \* Ok(()), another chunk follows
          /\ Len(txlog) < NumChunks(rmt_buffer, RMT_RAM_ONE_LED + 1)
          /\ txlog' = Append(SetLast(txlog, "ok", "none"), TxChunk(rmt_buffer, Len(txlog) + 1))
          /\ UNCHANGED <<pc, result, periph_failed>>
       \/ \* Ok(()), that was the last chunk
          /\ Len(txlog) >= NumChunks(rmt_buffer, RMT_RAM_ONE_LED + 1)
          /\ txlog' = SetLast(txlog, "ok", "none")
          /\ pc' = "idle"
          /\ result' = Ok
          /\ UNCHANGED periph_failed
       \/ \* Err(e): map_err(TransmissionError)? returns
          /\ \E e \in RmtError :
                /\ txlog' = SetLast(txlog, "err", e)
                /\ result' = TransmissionError(e)
          /\ pc' = "idle"
          /\ periph_failed' = TRUE
    /\ UNCHANGED <<mode, channel, rmt_buffer, pulses, req, prev_buffer, codecVars>>

Next ==
    \/ \E colors \in ColorSeqs : SyncWrite(colors)
    \/ SyncWait
    \/ \E colors \in ColorSeqs : AsyncWrite(colors)
    \/ AsyncComplete

Spec == Init /\ [][Next]_vars

(***************************************************************************)
(* The pure functions on their own: an input is drawn, the function is     *)
(* applied once.                                                           *)
(***************************************************************************)
AdapterIdle ==
    /\ mode = "none"
    /\ channel = "Some"
    /\ rmt_buffer = <<>>
    /\ pulses = CodecPulses
    /\ pc = "idle"
    /\ req = <<>>
    /\ prev_buffer = <<>>
    /\ txlog = <<>>
    /\ result = NoResult
    /\ periph_failed = FALSE

CodecInit ==
    /\ AdapterIdle
    /\ out = [done |-> FALSE]
    /\ \/ /\ fn = "led_pulses_for_clock"
          /\ arg \in (1..MaxClockMHz) \cup LargeClocks
       \/ /\ fn = "convert_rgb_to_pulses"
          /\ arg \in [value : CodecColors, start : 0..MaxStart, free : 0..MaxFree]
       \/ /\ fn = "buffer_size"
          /\ arg \in (0..MaxSizeLeds) \cup LargeLeds
       \/ /\ fn = "write"
          /\ arg \in [colors : ColorSeqs, cap : 0..MaxEncCap]

\* The destination of a codec run: start + free slots, start of them consumed.
Destination(a) == IterMut([i \in 1..(a.start + a.free) |-> Stale], a.start)

ApplyPulses ==
    /\ fn = "led_pulses_for_clock"
    /\ ~out.done
    /\ out' = [done |-> TRUE, val |-> led_pulses_for_clock(arg)]
    /\ UNCHANGED <<adapterVars, fn, arg>>

ApplyRgb ==
    /\ fn = "convert_rgb_to_pulses"
    /\ ~out.done
    /\ out' = [done |-> TRUE, val |-> convert_rgb_to_pulses(arg.value, Destination(arg), CodecPulses)]
    /\ UNCHANGED <<adapterVars, fn, arg>>

ApplySize ==
    /\ fn = "buffer_size"
    /\ ~out.done
    /\ out' = [done |-> TRUE, val |-> [sync |-> buffer_size(arg), async |-> buffer_size_async(arg)]]
    /\ UNCHANGED <<adapterVars, fn, arg>>

\* The encoding part of SmartLedsAdapter::write into a buffer of arg.cap words.
ApplyWrite ==
    /\ fn = "write"
    /\ ~out.done
    /\ out' = [done |-> TRUE,
               val |-> write_encode([i \in 1..arg.cap |-> Stale], arg.colors, CodecPulses)]
    /\ UNCHANGED <<adapterVars, fn, arg>>

CodecNext == ApplyPulses \/ ApplyRgb \/ ApplySize \/ ApplyWrite

CodecSpec == CodecInit /\ [][CodecNext]_vars

(***************************************************************************)
(* What the claims speak of, stated apart from the code's loops.           *)
(***************************************************************************)
\* bit b (7 = most significant) of an 8-bit value
BitOf(v, b) == (v \div (2 ^ b)) % 2

\* Word j (0..23) of a color's pulse train: green, red, blue, each bit 7 down to 0.
ExpectedWord(c, j, pls) ==
    LET ch == IF j < 8 THEN c.g ELSE IF j < 16 THEN c.r ELSE c.b
    IN  IF BitOf(ch, 7 - (j % 8)) = 1 THEN pls[2] ELSE pls[1]

ColorWords(c, pls) == [j \in 1..24 |-> ExpectedWord(c, j - 1, pls)]

\* Word j (from 0) of the chunked train of a color sequence: 24 words and an end marker per color.
ChunkedWord(colors, j, pls) ==
    IF j % 25 = 24 THEN EndMarker ELSE ExpectedWord(colors[(j \div 25) + 1], j % 25, pls)

\* The last write call has come back to its caller with a result.
CallReturned == pc = "idle" /\ result.kind # "none"
\* A write call has been made and is over, whichever way.
CallEnded == CallReturned \/ pc = "panicked"
\* A write call has been made.
CallMade == pc # "idle" \/ result.kind # "none"

HighLowSum(word) == word[2] + word[4]

(***************************************************************************)
(* C1: whenever a write call of the synchronous adapter has returned, for  *)
(* every outcome the peripheral gave (success, failure from transmit(),    *)
(* failure from wait()), the adapter holds its channel again.              *)
(* Violated: `channel.transmit(..)?` returns with the channel moved into   *)
(* the failed call and self.channel left None.                             *)
(***************************************************************************)
C1_ChannelHeldWhenWriteReturns ==
    (mode = "sync" /\ pc = "idle") => channel = "Some"

(***************************************************************************)
(* C2: an asynchronous write of n colors that succeeded on a buffer of     *)
(* capacity >= buffer_size_async(n) made exactly n transmit calls, each    *)
(* of 25 words, the i-th carrying the encoding of the i-th color followed  *)
(* by one end marker.                                                      *)
(* Violated: the loop walks chunks(25) of the whole buffer, not of the     *)
(* part the call encoded.                                                  *)
(***************************************************************************)
C2_AsyncOneTransmitPerColor ==
    (mode = "async" /\ CallReturned /\ result = Ok
        /\ Len(rmt_buffer) >= buffer_size_async(Len(req)))
    => /\ Len(txlog) = Len(req)
       /\ \A i \in 1..Len(txlog) :
             /\ Len(txlog[i].data) = 25
             /\ txlog[i].data = ColorWords(req[i], pulses) \o <<EndMarker>>

(***************************************************************************)
(* C3: in an asynchronous write the transmit calls are in buffer order,    *)
(* one chunk after the other from offset 0; a chunk is only transmitted    *)
(* once every chunk before it was reported successful; at most the last    *)
(* call is in flight; and when a chunk fails it is the last call of the    *)
(* write, which has returned TransmissionError with the peripheral's       *)
(* cause.                                                                  *)
(***************************************************************************)
C3_ChunksSequentialAbortOnFailure ==
    mode = "async" =>
       /\ \A i \in 1..Len(txlog) :
             /\ txlog[i].offset = 25 * (i - 1)
             /\ txlog[i].data =
                   SubSeq(rmt_buffer, txlog[i].offset + 1,
                          Min(txlog[i].offset + 25, Len(rmt_buffer)))
       /\ \A i \in 1..(Len(txlog) - 1) : txlog[i].status = "ok"
       /\ (pc = "awaiting") <=> (Len(txlog) > 0 /\ txlog[Len(txlog)].status = "pending")
       /\ (Len(txlog) > 0 /\ txlog[Len(txlog)].status = "err")
             => /\ pc = "idle"
                /\ result = TransmissionError(txlog[Len(txlog)].cause)
                /\ result.cause \in RmtError

\* The second chunk of at least three failed: the third was never sent.
C3_Witness ==
    /\ mode = "async"
    /\ Len(txlog) = 2
    /\ txlog[2].status = "err"
    /\ Len(rmt_buffer) > 50
    /\ result.kind = "TransmissionError"

(***************************************************************************)
(* C4: a synchronous write of no colors on a buffer of capacity >= 1       *)
(* writes the end marker at position 0, changes no other slot, and makes   *)
(* exactly one transmit call, whose data starts at position 0 with that    *)
(* end marker.                                                             *)
(* Violated only through C1: on an adapter that lost its channel the call  *)
(* panics in unwrap() after writing the end marker, without a transmit.    *)
(***************************************************************************)
C4_EmptySyncWrite ==
    (mode = "sync" /\ CallMade /\ req = <<>> /\ Len(prev_buffer) >= 1)
    => /\ rmt_buffer[1] = EndMarker
       /\ \A i \in 2..Len(rmt_buffer) : rmt_buffer[i] = prev_buffer[i]
       /\ Len(txlog) = 1
       /\ txlog[1].offset = 0
       /\ txlog[1].data[1] = EndMarker

C6_EncodingFailureKeepsChannel ==
    (CallReturned /\ result = BufferSizeExceeded)
    => /\ txlog = <<>>
       /\ mode = "sync" => (pc = "idle" /\ channel = "Some")

(***************************************************************************)
(* C7: every write call ends by returning Ok, BufferSizeExceeded or        *)
(* TransmissionError with the peripheral's cause, and returns Ok only if   *)
(* the encoding fitted and every transmit call it made was reported        *)
(* successful.                                                             *)
(* Violated only through C1: the write after a rejected transmit() ends    *)
(* in the panic of unwrap(), returning nothing.                            *)
(***************************************************************************)
C7_EveryCallReturnsOneOfThree ==
    /\ pc # "panicked"
    /\ CallReturned =>
          /\ result.kind \in {"Ok", "BufferSizeExceeded", "TransmissionError"}
          /\ result.kind = "TransmissionError" => result.cause \in RmtError
          /\ result = Ok => \A i \in 1..Len(txlog) : txlog[i].status = "ok"

(***************************************************************************)
(* C8 as claimed: after an asynchronous write that failed in the encoding  *)
(* no transmit call was made and the buffer is as it was before the call.  *)
(***************************************************************************)
C8_BufferUntouchedOnAsyncEncodingFailure ==
    (mode = "async" /\ CallReturned /\ result = BufferSizeExceeded)
    => /\ txlog = <<>>
       /\ rmt_buffer = prev_buffer

(***************************************************************************)
(* C8 as amended: after an asynchronous write that failed in the encoding  *)
(* no transmit call was made, the buffer has its capacity, and every slot  *)
(* of it has been overwritten: slot j holds word j of the chunked encoding *)
(* of the call's colors (24 pulse words, then an end marker, per color).   *)
(***************************************************************************)
C8_BufferOverwrittenOnAsyncEncodingFailure ==
    (mode = "async" /\ CallReturned /\ result = BufferSizeExceeded)
    => /\ txlog = <<>>
       /\ Len(rmt_buffer) = Len(prev_buffer)
       /\ Len(rmt_buffer) < 25 * Len(req)
       /\ \A j \in 1..Len(rmt_buffer) : rmt_buffer[j] = ChunkedWord(req, j - 1, pulses)

C8_Witness ==
    /\ mode = "async"
    /\ CallReturned
    /\ result = BufferSizeExceeded
    /\ Len(rmt_buffer) > 25
    /\ rmt_buffer # prev_buffer

(***************************************************************************)
(* C9: convert_rgb_to_pulses into a destination with at least 24 free      *)
(* slots succeeds and writes exactly the next 24 slots: green bit 7..0,    *)
(* red bit 7..0, blue bit 7..0, the one-pulse for a set bit and the        *)
(* zero-pulse otherwise; R=0x00,G=0xFF,B=0x00 gives 8 one-pulses and 16    *)
(* zero-pulses.                                                            *)
(***************************************************************************)
C9_ColorEncoding ==
    (fn = "convert_rgb_to_pulses" /\ out.done /\ arg.free >= 24)
    => /\ out.val.res = Ok
       /\ out.val.it.pos = arg.start + 24
       /\ Len(out.val.it.buf) = arg.start + arg.free
       /\ \A i \in 1..Len(out.val.it.buf) :
             out.val.it.buf[i] =
                IF i > arg.start /\ i <= arg.start + 24
                THEN ExpectedWord(arg.value, i - arg.start - 1, CodecPulses)
                ELSE Stale
       /\ arg.value = RGB8(0, 255, 0)
             => \A i \in 1..24 :
                   out.val.it.buf[arg.start + i] =
                      IF i <= 8 THEN CodecPulses[2] ELSE CodecPulses[1]

C9_Witness ==
    /\ fn = "convert_rgb_to_pulses"
    /\ out.done
    /\ arg.value = RGB8(165, 255, 90)
    /\ arg.free = 25
    /\ arg.start = 1
    /\ out.val.res = Ok

(***************************************************************************)
(* C10 as claimed: for every clock f the high and low ticks of the         *)
(* zero-pulse and of the one-pulse both sum to 1250 * f / 1000.            *)
(***************************************************************************)
C10_PeriodExact ==
    (fn = "led_pulses_for_clock" /\ out.done)
    => /\ HighLowSum(out.val[1]) = HighLowSum(out.val[2])
       /\ HighLowSum(out.val[1]) = (SK68XX_CODE_PERIOD * arg) \div 1000

(***************************************************************************)
(* C10 as amended: for every clock f the high and low ticks of the         *)
(* zero-pulse and of the one-pulse sum to the same number; while no        *)
(* duration exceeds 16 bits (f <= 77100) that number is 1250 * f / 1000 or *)
(* one less, the two truncations losing at most one tick together, and it  *)
(* is exactly 1250 * f / 1000 when f is a multiple of 20.                  *)
(***************************************************************************)
C10_PeriodWithinOneTick ==
    (fn = "led_pulses_for_clock" /\ out.done)
    => /\ HighLowSum(out.val[1]) = HighLowSum(out.val[2])
       /\ out.val[1][1] = High /\ out.val[1][3] = Low
       /\ out.val[2][1] = High /\ out.val[2][3] = Low
       /\ arg <= 77100 =>
             /\ HighLowSum(out.val[1]) <= (SK68XX_CODE_PERIOD * arg) \div 1000
             /\ HighLowSum(out.val[1]) >= (SK68XX_CODE_PERIOD * arg) \div 1000 - 1
             /\ arg % 20 = 0 =>
                   HighLowSum(out.val[1]) = (SK68XX_CODE_PERIOD * arg) \div 1000

\* A clock at which the truncations lose a tick.
C10_Witness ==
    /\ fn = "led_pulses_for_clock"
    /\ out.done
    /\ arg = 7
    /\ HighLowSum(out.val[2]) = (SK68XX_CODE_PERIOD * arg) \div 1000 - 1

(***************************************************************************)
(* C11: for every number of LEDs n >= 0 whose sizes fit the integer width, *)
(* buffer_size(n) is 24 * n + 1 and buffer_size_async(n) is 25 * n.        *)
(***************************************************************************)
C11_BufferSizes ==
    (fn = "buffer_size" /\ out.done)
    => /\ out.val.sync = 24 * arg + 1
       /\ out.val.async = 25 * arg

C11_Witness ==
    /\ fn = "buffer_size"
    /\ out.done
    /\ arg = 3
    /\ out.val.sync = 73
    /\ out.val.async = 75

(***************************************************************************)
(* C12: when the destination runs out, the encoding stops at the first     *)
(* shortfall.  One color into k < 24 free slots: exactly those k slots are *)
(* overwritten, each with the pulse word of its bit in G, R, B / MSB-first *)
(* order, no slot before the starting position is touched, the result is   *)
(* BufferSizeExceeded.  A color sequence into a buffer too small for its   *)
(* colors: every slot holds the word of the flat encoding at its place,    *)
(* the color that met the shortfall is the last one taken from the         *)
(* sequence, the result is BufferSizeExceeded.                             *)
(***************************************************************************)
C12_StopsAtFirstShortfall ==
    /\ (fn = "convert_rgb_to_pulses" /\ out.done /\ arg.free < 24)
       => /\ out.val.res = BufferSizeExceeded
          /\ out.val.it.pos = arg.start + arg.free
          /\ Len(out.val.it.buf) = arg.start + arg.free
          /\ \A i \in 1..Len(out.val.it.buf) :
                out.val.it.buf[i] =
                   IF i > arg.start
                   THEN ExpectedWord(arg.value, i - arg.start - 1, CodecPulses)
                   ELSE Stale
    /\ (fn = "write" /\ out.done /\ arg.cap < 24 * Len(arg.colors))
       => /\ out.val.res = BufferSizeExceeded
          /\ Len(out.val.it.buf) = arg.cap
          /\ \A j \in 1..arg.cap :
                out.val.it.buf[j] =
                   ExpectedWord(arg.colors[((j - 1) \div 24) + 1], (j - 1) % 24, CodecPulses)
          /\ out.val.taken = (arg.cap \div 24) + 1

\* Eleven slots for a color: green and three bits of red go in, then the shortfall.
C12_Witness ==
    /\ fn = "convert_rgb_to_pulses"
    /\ out.done
    /\ arg.free = 11
    /\ arg.start = 1
    /\ arg.value = RGB8(165, 90, 1)
    /\ out.val.res = BufferSizeExceeded
    /\ out.val.it.buf[12] = CodecPulses[2]

(***************************************************************************)
(* C13: every write call encodes from buffer index 0, whatever earlier     *)
(* writes left.  Once the encoding of a synchronous write of n colors has  *)
(* succeeded, slots 24*i .. 24*i+23 hold the encoding of the i-th color    *)
(* for every i < n and slot 24*n holds the end marker; once the encoding   *)
(* of an asynchronous write of n colors has succeeded, slots               *)
(* 25*i .. 25*i+23 hold the encoding of the i-th color and slot 25*i+24    *)
(* holds the end marker.                                                   *)
(***************************************************************************)
C13_EncodesFromIndexZero ==
    /\ (mode = "sync" /\ CallMade /\ result # BufferSizeExceeded)
       => /\ Len(rmt_buffer) >= 24 * Len(req) + 1
          /\ \A i \in 0..(Len(req) - 1) : \A j \in 0..23 :
                rmt_buffer[24 * i + j + 1] = ExpectedWord(req[i + 1], j, pulses)
          /\ rmt_buffer[24 * Len(req) + 1] = EndMarker
    /\ (mode = "async" /\ CallMade /\ result # BufferSizeExceeded)
       => /\ Len(rmt_buffer) >= 25 * Len(req)
          /\ \A i \in 0..(Len(req) - 1) :
                /\ \A j \in 0..23 :
                      rmt_buffer[25 * i + j + 1] = ExpectedWord(req[i + 1], j, pulses)
                /\ rmt_buffer[25 * i + 24 + 1] = EndMarker

\* A write of one color that succeeded over what a write of two colors had left.
C13_Witness ==
    /\ mode = "sync"
    /\ CallReturned
    /\ result = Ok
    /\ Len(req) = 1
    /\ Len(rmt_buffer) >= 49
    /\ rmt_buffer[48] # EndMarker
    /\ rmt_buffer[48] # Stale

(***************************************************************************)
(* C14: no step of a write call changes the adapter's pulse pair or the    *)
(* capacity of its buffer, and a write call changes only a prefix of the   *)
(* buffer: a synchronous write of n colors leaves every slot at an index   *)
(* above 24*n as it was, an asynchronous write of n colors every slot at   *)
(* an index of 25*n or more; the steps that complete a transmission leave  *)
(* the whole buffer as it was.                                             *)
(***************************************************************************)
C14_WriteChangesOnlyPrefix ==
    [][ /\ pulses' = pulses
        /\ Len(rmt_buffer') = Len(rmt_buffer)
        /\ (mode = "sync" /\ pc = "idle")
              => \A i \in (24 * Len(req') + 2)..Len(rmt_buffer) :
                    rmt_buffer'[i] = rmt_buffer[i]
        /\ (mode = "async" /\ pc = "idle")
              => \A i \in (25 * Len(req') + 1)..Len(rmt_buffer) :
                    rmt_buffer'[i] = rmt_buffer[i]
        /\ pc # "idle" => rmt_buffer' = rmt_buffer
      ]_vars

\* A write of no colors has put its end marker before the pulses of an earlier write.
C14_Witness ==
    /\ mode = "sync"
    /\ CallMade
    /\ req = <<>>
    /\ Len(rmt_buffer) >= 2
    /\ prev_buffer[1] # EndMarker
    /\ rmt_buffer[1] = EndMarker
    /\ rmt_buffer[2] # EndMarker
    /\ pulses = led_pulses_for_clock(80)

(***************************************************************************)
(* C15: in every synchronous write that reached the transmit step, with    *)
(* both pulse words different from the zero word, the first zero word of   *)
(* the buffer handed to the peripheral is at index 24*n, n the number of   *)
(* colors of this call, and the words before it are the encoding of this   *)
(* call's colors; what an earlier, longer write left lies behind it.       *)
(***************************************************************************)
C15_FirstEndMarkerEndsThisCall ==
    (mode = "sync" /\ Len(txlog) = 1 /\ pulses[1] # EndMarker /\ pulses[2] # EndMarker)
    => /\ txlog[1].offset = 0
       /\ Len(txlog[1].data) >= 24 * Len(req) + 1
       /\ txlog[1].data[24 * Len(req) + 1] = EndMarker
       /\ \A j \in 1..(24 * Len(req)) :
             /\ txlog[1].data[j] # EndMarker
             /\ txlog[1].data[j] =
                   ExpectedWord(req[((j - 1) \div 24) + 1], (j - 1) % 24, pulses)

\* One color handed over, the pulses of an earlier second color behind its end marker.
C15_Witness ==
    /\ mode = "sync"
    /\ Len(txlog) = 1
    /\ Len(req) = 1
    /\ Len(txlog[1].data) >= 49
    /\ txlog[1].data[25] = EndMarker
    /\ txlog[1].data[26] # EndMarker
    /\ txlog[1].status = "ok"

====
